---- MODULE Spec2Model ----
(***************************************************************************)
(* A model of the pickle library: the Result container (Ok / Err), the     *)
(* Option container (Some / None), the Result combinators and the          *)
(* AsyncResult wrapper (class Async) of src/src/Result/Result.ts and       *)
(* src/src/Option/Option.ts.                                               *)
(*                                                                         *)
(* JavaScript values are records tagged by k; a call of a caller-supplied  *)
(* function ends in a completion, a normal return or a throw.              *)
(***************************************************************************)
EXTENDS Integers, Sequences, FiniteSets

VARIABLES
    self,       \* sync: the receiver of the last method call (a Result or an Option)
    call,       \* sync: the last call, [op, fn, args]
    ret,        \* sync: the completion of the last call
    invoked,    \* sync: the caller-supplied functions the last call invoked, in order
    source,     \* async: the Result the wrapped computation resolves to
    asyncs,     \* async: the Async instances, in the order they were constructed
    access,     \* async: the caller's current or last await or terminal accessor call
    heap        \* objects: the containers constructed so far, each at its address

syncVars == <<self, call, ret, invoked, heap>>
asyncVars == <<source, asyncs, access>>
vars == <<self, call, ret, invoked, source, asyncs, access, heap>>

(***************************************************************************)
(* Bounds of the model.                                                    *)
(***************************************************************************)
MaxArgs == 3        \* the longest argument list handed to Result.all / Result.any
MaxStages == 2      \* the transformations chained on the first Async instance
MaxObjects == 1     \* the containers kept at an address, besides Option.none

(***************************************************************************)
(* JavaScript values.                                                      *)
(***************************************************************************)
Null == [k |-> "null"]
Undefined == [k |-> "undefined"]
Str(s) == [k |-> "string", v |-> s]
Array(items) == [k |-> "array", items |-> items]
\* A promise, named by the completion it settles with.
Promise(settles) == [k |-> "promise", settles |-> settles]

Return(v) == [v |-> v, c |-> "return"]
Throw(v) == [v |-> v, c |-> "throw"]

Num(n) == [k |-> "number", v |-> n]
Bool(b) == [k |-> "boolean", v |-> b]
\* `new Error(message)`, and the TypeError of a call of something not callable.
Error(message) == [k |-> "Error", message |-> message]
TypeError == [k |-> "TypeError"]

IsPromise(v) == v.k = "promise"
\* `x ? ... : ...` of JavaScript: null, undefined, '', 0 and false are falsy,
\* objects are truthy.
Truthy(v) ==
    /\ v.k \notin {"null", "undefined"}
    /\ v # Str("")
    /\ v # Num(0)
    /\ v # Bool(FALSE)
\* `a ?? b`
Coalesce(a, b) == IF a.k \in {"null", "undefined"} THEN b ELSE a

Atoms == {Str("a"), Str("b"), Null, Undefined}
\* The values handed to the constructors: the falsy ones among them.
Values == {Str("a"), Str(""), Num(0), Num(1), Bool(FALSE), Null, Undefined}

(***************************************************************************)
(* The containers.                                                         *)
(***************************************************************************)
Ok(value) == [k |-> "Result", value |-> value, type |-> "Ok", isOk |-> TRUE, isErr |-> FALSE]
Err(error) == [k |-> "Result", type |-> "Err", isOk |-> FALSE, isErr |-> TRUE, error |-> error]
Some(value) == [k |-> "Option", value |-> value, type |-> "Some", isSome |-> TRUE, isNone |-> FALSE]
None == [k |-> "Option", type |-> "None", isSome |-> FALSE, isNone |-> TRUE]

ok(value) == Ok(Coalesce(value, Null))
err(error) == Err(error)
some(value) == Some(value)
\* An object kept at an address carries it; what `new` has just built, and
\* nothing keeps yet, carries none.
Ref(obj, at) == [f \in DOMAIN obj \cup {"ref"} |-> IF f = "ref" THEN at ELSE obj[f]]
\* `const none = new None()`: the one None the module builds, at address 0.
none == Ref(None, 0)

(***************************************************************************)
(* Caller-supplied functions.  A function is named; Body gives what it     *)
(* does on an argument.  AsyncArrow(fn) is the wrapper `async (x) => fn(x)`*)
(* that class Async hands to the synchronous methods.                      *)
(***************************************************************************)
Fn(name) == [name |-> name, arrow |-> FALSE]
AsyncArrow(fn) == [name |-> fn.name, arrow |-> TRUE]
NoFn == Fn("-")

swap(x) == IF x = Str("a") THEN Str("b") ELSE Str("a")

\* (x) => x === 'a' ? 'b' : 'a', (x) => {}, async (x) => swap(x), (x) => { throw 'boom' }
ValueFns == {Fn("swap"), Fn("void"), Fn("later"), Fn("raise")}
\* (x) => Result.ok(swap(x)), (x) => Result.err(swap(x)),
\* async (x) => Result.ok(swap(x)), (x) => { throw 'boom' }
ResultFns == {Fn("okSwap"), Fn("errSwap"), Fn("laterOk"), Fn("raise")}
\* (x) => Option.some(swap(x)), (x) => Option.none, (x) => { throw 'boom' }
OptionFns == {Fn("someSwap"), Fn("toNone"), Fn("raise")}
\* (e) => swap(e), (e) => new Error(e), (e) => { throw 'boom' }, and no function
ThrowFns == {Fn("swap"), Fn("wrap"), Fn("raise"), NoFn}
\* () => 'a', () => {}, () => { throw 'boom' }, () => Promise.resolve('a'),
\* () => Promise.resolve(undefined), () => Promise.reject('boom')
Thunks == {Fn("swap"), Fn("void"), Fn("raise"), Fn("later"), Fn("laterVoid"), Fn("failing")}
\* (x) => {}, (x) => { throw 'boom' }
Effects == {Fn("void"), Fn("raise")}

Body(name, x) ==
    CASE name = "swap"     -> Return(swap(x))
      [] name = "void"     -> Return(Undefined)
      [] name = "later"    -> Return(Promise(Return(swap(x))))
      [] name = "okSwap"   -> Return(ok(swap(x)))
      [] name = "errSwap"  -> Return(err(swap(x)))
      [] name = "laterOk"  -> Return(Promise(Return(ok(swap(x)))))
      [] name = "someSwap" -> Return(some(swap(x)))
      [] name = "toNone"   -> Return(none)
      [] name = "raise"    -> Throw(Str("boom"))
      [] name = "wrap"     -> Return(Error(x))
      [] name = "laterVoid" -> Return(Promise(Return(Undefined)))
      [] name = "failing"  -> Return(Promise(Throw(Str("boom"))))
      [] name = "isA"      -> Return(Bool(x = Str("a")))

\* An async function returns a promise: rejected with what its body throws,
\* following the promise its body returns, fulfilled with any other value.
AsyncFunction(completion) ==
    IF completion.c = "throw" THEN Return(Promise(completion))
    ELSE IF IsPromise(completion.v) THEN Return(completion.v)
    ELSE Return(Promise(completion))

\* (x) => outer(inner(x)), of two functions that return.
Compose(inner, outer) ==
    [name |-> "compose", arrow |-> FALSE, inner |-> inner, outer |-> outer]

Apply(fn, x) ==
    IF fn.arrow THEN AsyncFunction(Body(fn.name, x))
    ELSE IF fn.name = "compose" THEN Body(fn.outer.name, Body(fn.inner.name, x).v)
    ELSE Body(fn.name, x)

(***************************************************************************)
(* A method's outcome: its completion and the functions it invoked.        *)
(***************************************************************************)
Outcome(completion, calls) == [completion |-> completion, calls |-> calls]
Invocation(fn, x) == [fn |-> fn, arg |-> x]

\* `expr(fn(x))`: the call of fn, then wrap applied to what it returned.
CallThen(fn, x, wrap(_)) ==
    LET r == Apply(fn, x)
    IN  Outcome(IF r.c = "throw" THEN r ELSE Return(wrap(r.v)), <<Invocation(fn, x)>>)

Identity(v) == v

(***************************************************************************)
(* class Ok                                                                *)
(***************************************************************************)
\* Ok.tuple written like Err.tuple: the value comes second.
OkTupleSwapped(this) == Outcome(Return(Array(<<Null, this.value>>)), <<>>)
OkTuple(this) == Outcome(Return(Array(<<this.value, Null>>)), <<>>)
\* Ok.map with fn evaluated twice, once for a test and once for the value.
OkMapCallsTwice(this, fn) ==
    LET r == Apply(fn, this.value)
    IN  Outcome(IF r.c = "throw" THEN r ELSE Return(Ok(r.v)),
                <<Invocation(fn, this.value), Invocation(fn, this.value)>>)
\* Ok.map that stores the new value in the receiver and returns it.
OkMapInPlace(this, fn) ==
    LET r == Apply(fn, this.value)
    IN  Outcome(IF r.c = "throw" THEN r ELSE Return([this EXCEPT !.value = r.v]),
                <<Invocation(fn, this.value)>>)
OkMap(this, fn) == CallThen(fn, this.value, Ok)
OkFlatMap(this, fn) == CallThen(fn, this.value, Identity)
OkMapErr(this, fn) == Outcome(Return(this), <<>>)
OkFlatMapErr(this, fn) == Outcome(Return(this), <<>>)
OkUnsafe(this) == Outcome(Return(this.value), <<>>)

(***************************************************************************)
(* class Err                                                               *)
(***************************************************************************)
\* Err.tuple written like Ok.tuple: the error comes first.
ErrTupleSwapped(this) == Outcome(Return(Array(<<this.error, Null>>)), <<>>)
ErrTuple(this) == Outcome(Return(Array(<<Null, this.error>>)), <<>>)
\* Err.map written like Err.mapErr: the function is applied to the error.
ErrMapApplies(this, fn) == CallThen(fn, this.error, Err)
ErrMap(this, fn) == Outcome(Return(this), <<>>)
ErrFlatMap(this, fn) == Outcome(Return(this), <<>>)
ErrMapErr(this, fn) == CallThen(fn, this.error, Err)
ErrFlatMapErr(this, fn) == CallThen(fn, this.error, Identity)
ErrUnsafe(this) == Outcome(Return(this.error), <<>>)

(***************************************************************************)
(* class Some, class None                                                  *)
(***************************************************************************)
SomeMap(this, fn) == CallThen(fn, this.value, Some)
SomeFlatMap(this, fn) == CallThen(fn, this.value, Identity)
NoneMap(this, fn) == Outcome(Return(this), <<>>)
NoneFlatMap(this, fn) == Outcome(Return(this), <<>>)

(***************************************************************************)
(* The accessors, conversions and side effects of the four classes.        *)
(***************************************************************************)
IsCallable(fn) == "name" \in DOMAIN fn /\ fn # NoFn

\* `fn(x)`: the call of something that is not a function (a missing
\* argument, a promise) throws a TypeError and runs nothing.
Call(fn, x) ==
    IF IsCallable(fn) THEN Outcome(Apply(fn, x), <<Invocation(fn, x)>>)
    ELSE Outcome(Throw(TypeError), <<>>)

OkOkOrThrow(this, fn) == Outcome(Return(this.value), <<>>)
\* `throw fn(this.error)`
ErrOkOrThrow(this, fn) ==
    LET o == Call(fn, this.error)
    IN  Outcome(IF o.completion.c = "throw" THEN o.completion ELSE Throw(o.completion.v),
                o.calls)

OkOr(this, result) == Outcome(Return(this), <<>>)
\* Err.or written like Ok.or: the receiver is returned.
ErrOrKeeps(this, result) == Outcome(Return(this), <<>>)
ErrOr(this, result) == Outcome(Return(result), <<>>)
SomeOr(this, option) == Outcome(Return(this), <<>>)
NoneOr(this, option) == Outcome(Return(option), <<>>)

OkToOption(this) == Outcome(Return(some(this.value)), <<>>)
\* Err.toOption with `new None()` for Option.none.
ErrToOptionFresh(this) == Outcome(Return(None), <<>>)
ErrToOption(this) == Outcome(Return(none), <<>>)
SomeToResult(this, error) == Outcome(Return(ok(this.value)), <<>>)
NoneToResult(this, error) == Outcome(Return(err(error)), <<>>)

\* `fn(x); return result`
CallAnd(fn, x, result) ==
    LET r == Apply(fn, x)
    IN  Outcome(IF r.c = "throw" THEN r ELSE Return(result), <<Invocation(fn, x)>>)

\* Ok.effect that hands on a copy of the receiver.
OkEffectCopies(this, fn) == CallAnd(fn, this.value, [x \in DOMAIN Ok(this.value) |-> this[x]])
OkEffect(this, fn) == CallAnd(fn, this.value, this)
OkEffectErr(this, fn) == Outcome(Return(this), <<>>)

\* Err.okOr written like Err.unsafe under a throw: the stored error is thrown.
ErrOkOrThrows(this, fallback) == Outcome(Throw(this.error), <<>>)
ErrOkOr(this, fallback) == Outcome(Return(fallback), <<>>)
ErrEffect(this, fn) == Outcome(Return(this), <<>>)
ErrEffectErr(this, fn) == CallAnd(fn, this.error, this)

(***************************************************************************)
(* Method dispatch on the receiver's class.                                *)
(***************************************************************************)
OkMethod(this, op, fn) ==
    CASE op = "map"        -> OkMap(this, fn)
      [] op = "flatMap"    -> OkFlatMap(this, fn)
      [] op = "mapErr"     -> OkMapErr(this, fn)
      [] op = "flatMapErr" -> OkFlatMapErr(this, fn)
      [] op = "tuple"      -> OkTuple(this)
      [] op = "unsafe"     -> OkUnsafe(this)

ErrMethod(this, op, fn) ==
    CASE op = "map"        -> ErrMap(this, fn)
      [] op = "flatMap"    -> ErrFlatMap(this, fn)
      [] op = "mapErr"     -> ErrMapErr(this, fn)
      [] op = "flatMapErr" -> ErrFlatMapErr(this, fn)
      [] op = "tuple"      -> ErrTuple(this)
      [] op = "unsafe"     -> ErrUnsafe(this)

SomeMethod(this, op, fn) ==
    CASE op = "map"        -> SomeMap(this, fn)
      [] op = "flatMap"    -> SomeFlatMap(this, fn)

NoneMethod(this, op, fn) ==
    CASE op = "map"        -> NoneMap(this, fn)
      [] op = "flatMap"    -> NoneFlatMap(this, fn)

Method(this, op, fn) ==
    CASE this.type = "Ok"   -> OkMethod(this, op, fn)
      [] this.type = "Err"  -> ErrMethod(this, op, fn)
      [] this.type = "Some" -> SomeMethod(this, op, fn)
      [] this.type = "None" -> NoneMethod(this, op, fn)

\* The methods map, flatMap, mapErr, flatMapErr, tuple and unsafe are
\* dispatched by Method; the others by Member, on their one argument.
\* The members of class Ok.
OkMember(this, op, arg) ==
    CASE op = "okOr"       -> Outcome(Return(this.value), <<>>)
      [] op = "errorOr"    -> Outcome(Return(arg), <<>>)
      [] op = "okOrElse"   -> Outcome(Return(this.value), <<>>)
      [] op = "errorOrElse" -> CallThen(arg, Undefined, Identity)
      [] op = "okOrThrow"  -> OkOkOrThrow(this, arg)
      \* errorOrThrow: `throw fn(this.value)`
      [] op = "errorOrThrow" ->
            LET o == Call(arg, this.value)
            IN  Outcome(IF o.completion.c = "throw" THEN o.completion
                        ELSE Throw(o.completion.v),
                        o.calls)
      [] op = "or"         -> OkOr(this, arg)
      \* filter: `fn(this.value) ? some(this.value) : none`
      [] op = "filter"     ->
            LET r == Apply(arg, this.value)
            IN  Outcome(IF r.c = "throw" THEN r
                        ELSE Return(IF Truthy(r.v) THEN some(this.value) ELSE none),
                        <<Invocation(arg, this.value)>>)
      [] op = "toOption"   -> OkToOption(this)
      [] op = "effect"     -> OkEffect(this, arg)
      [] op = "effectErr"  -> OkEffectErr(this, arg)

\* The members of class Err.
ErrMember(this, op, arg) ==
    CASE op = "okOr"       -> ErrOkOr(this, arg)
      [] op = "errorOr"    -> Outcome(Return(this.error), <<>>)
      [] op = "okOrElse"   -> CallThen(arg, Undefined, Identity)
      [] op = "errorOrElse" -> Outcome(Return(this.error), <<>>)
      [] op = "okOrThrow"  -> ErrOkOrThrow(this, arg)
      [] op = "errorOrThrow" -> Outcome(Return(this.error), <<>>)
      [] op = "or"         -> ErrOr(this, arg)
      [] op = "filter"     -> Outcome(Return(none), <<>>)
      [] op = "toOption"   -> ErrToOption(this)
      [] op = "effect"     -> ErrEffect(this, arg)
      [] op = "effectErr"  -> ErrEffectErr(this, arg)

\* The members of class Some.
SomeMember(this, op, arg) ==
    CASE op = "unsafe"     -> Outcome(Return(this.value), <<>>)
      [] op = "someOr"     -> Outcome(Return(this.value), <<>>)
      [] op = "noneOr"     -> Outcome(Return(arg), <<>>)
      [] op = "someOrElse" -> Outcome(Return(this.value), <<>>)
      [] op = "noneOrElse" -> CallThen(arg, Undefined, Identity)
      [] op = "someOrThrow" -> Outcome(Return(this.value), <<>>)
      [] op = "noneOrThrow" -> Outcome(Throw(arg), <<>>)
      [] op = "or"         -> SomeOr(this, arg)
      \* filter: `fn(this.value) ? this : none`
      [] op = "filter"     ->
            LET r == Apply(arg, this.value)
            IN  Outcome(IF r.c = "throw" THEN r
                        ELSE Return(IF Truthy(r.v) THEN this ELSE none),
                        <<Invocation(arg, this.value)>>)
      [] op = "toResult"   -> SomeToResult(this, arg)
      [] op = "effect"     -> CallAnd(arg, this.value, this)
      [] op = "effectNone" -> Outcome(Return(this), <<>>)

\* The members of class None.
NoneMember(this, op, arg) ==
    \* `unsafe(fallback = null)`: a missing argument is undefined.
    CASE op = "unsafe"     -> Outcome(Return(IF arg = Undefined THEN Null ELSE arg), <<>>)
      [] op = "someOr"     -> Outcome(Return(arg), <<>>)
      [] op = "noneOr"     -> Outcome(Return(Null), <<>>)
      [] op = "someOrElse" -> CallThen(arg, Undefined, Identity)
      [] op = "noneOrElse" -> Outcome(Return(Null), <<>>)
      [] op = "someOrThrow" -> Outcome(Throw(arg), <<>>)
      [] op = "noneOrThrow" -> Outcome(Return(Null), <<>>)
      [] op = "or"         -> NoneOr(this, arg)
      [] op = "filter"     -> Outcome(Return(this), <<>>)
      [] op = "toResult"   -> NoneToResult(this, arg)
      [] op = "effect"     -> Outcome(Return(this), <<>>)
      [] op = "effectNone" -> CallAnd(arg, Undefined, this)

Member(this, op, arg) ==
    IF op \in {"map", "flatMap", "mapErr", "flatMapErr", "tuple"}
       \/ (op = "unsafe" /\ this.k = "Result") THEN Method(this, op, arg)
    ELSE CASE this.type = "Ok"   -> OkMember(this, op, arg)
           [] this.type = "Err"  -> ErrMember(this, op, arg)
           [] this.type = "Some" -> SomeMember(this, op, arg)
           [] this.type = "None" -> NoneMember(this, op, arg)

(***************************************************************************)
(* Result.all, Result.any: the loops of the source, from index i on.       *)
(***************************************************************************)
\* Result.all without the early return: an Err is skipped, not returned.
RECURSIVE allLoopSkipsErr(_, _, _)
allLoopSkipsErr(results, i, values) ==
    IF i > Len(results) THEN ok(Array(values))
    ELSE IF results[i].isErr THEN allLoopSkipsErr(results, i + 1, values)
    ELSE allLoopSkipsErr(results, i + 1, Append(values, results[i].value))

RECURSIVE allLoop(_, _, _)
allLoop(results, i, values) ==
    IF i > Len(results) THEN ok(Array(values))
    ELSE IF results[i].isErr THEN results[i]
    ELSE allLoop(results, i + 1, Append(values, results[i].value))

all(results) == allLoop(results, 1, <<>>)

\* Result.any with unshift for push: the errors are collected in reverse.
RECURSIVE anyLoopUnshifts(_, _, _)
anyLoopUnshifts(results, i, errors) ==
    IF i > Len(results) THEN err(Array(errors))
    ELSE IF results[i].isOk THEN results[i]
    ELSE anyLoopUnshifts(results, i + 1, <<results[i].error>> \o errors)

RECURSIVE anyLoop(_, _, _)
anyLoop(results, i, errors) ==
    IF i > Len(results) THEN err(Array(errors))
    ELSE IF results[i].isOk THEN results[i]
    ELSE anyLoop(results, i + 1, Append(errors, results[i].error))

\* Result.any ending like Result.all: no input left is taken for success.
anyEndsOk(results) ==
    IF \E i \in 1..Len(results) : results[i].isOk THEN anyLoop(results, 1, <<>>)
    ELSE ok(Array([i \in 1..Len(results) |-> results[i].error]))
any(results) == anyLoop(results, 1, <<>>)

(***************************************************************************)
(* okOrThrow, or, toOption, toResult.                                      *)
(***************************************************************************)
okOrThrow(this, fn) ==
    IF this.type = "Ok" THEN OkOkOrThrow(this, fn) ELSE ErrOkOrThrow(this, fn)

or(this, other) ==
    CASE this.type = "Ok"   -> OkOr(this, other)
      [] this.type = "Err"  -> ErrOr(this, other)
      [] this.type = "Some" -> SomeOr(this, other)
      [] this.type = "None" -> NoneOr(this, other)

toOption(this) ==
    IF this.type = "Ok" THEN OkToOption(this) ELSE ErrToOption(this)

toResult(this, error) ==
    IF this.type = "Some" THEN SomeToResult(this, error) ELSE NoneToResult(this, error)

(***************************************************************************)
(* Result.from, Result.fromNullable, Result.safe; Option.safe, Option.all, *)
(* Option.any.                                                             *)
(***************************************************************************)
from(value, error) == IF ~Truthy(value) THEN err(error) ELSE ok(value)

\* Result.fromNullable with `==` for `===`: undefined is taken for null.
fromNullableLoose(value, error) ==
    IF value \in {Null, Undefined} THEN err(error) ELSE ok(value)
fromNullable(value, error) == IF value = Null THEN err(error) ELSE ok(value)

optionFrom(value) == IF ~Truthy(value) THEN none ELSE some(value)
optionFromNullable(value) == IF value = Null THEN none ELSE some(value)

\* `new Async(result)`, its promise named by the completion it settles with.
Async(result) == [k |-> "Async", result |-> result]

\* `result.then(ok).catch(err)`
ThenOkCatchErr(result) ==
    Promise(Return(IF result.settles.c = "return" THEN ok(result.settles.v)
                   ELSE err(result.settles.v)))

\* `result.then(some).catch(() => none)`
ThenSomeCatchNone(result) ==
    Promise(Return(IF result.settles.c = "return" THEN some(result.settles.v)
                   ELSE none))

safe(fn) ==
    LET o == Call(fn, Undefined)
        result == o.completion
    IN  Outcome(IF result.c = "throw" THEN Return(err(result.v))
                ELSE IF IsPromise(result.v) THEN Return(Async(ThenOkCatchErr(result.v)))
                ELSE Return(ok(result.v)),
                o.calls)

optionSafe(fn) ==
    LET o == Call(fn, Undefined)
        result == o.completion
    IN  Outcome(IF result.c = "throw" THEN Return(none)
                ELSE IF IsPromise(result.v) THEN Return(ThenSomeCatchNone(result.v))
                ELSE Return(some(result.v)),
                o.calls)

\* `await x`: x itself, what a promise settled with, or what the then of an
\* Async hands to resolve, `await this.result`.
RECURSIVE Await(_)
Await(x) ==
    CASE x.k = "Async"   -> Await(x.result)
      [] x.k = "promise" -> x.settles
      [] OTHER           -> Return(x)

\* Option.all without the early return: a None is skipped, not returned.
RECURSIVE optionAllLoopSkipsNone(_, _, _)
optionAllLoopSkipsNone(options, i, values) ==
    IF i > Len(options) THEN some(Array(values))
    ELSE IF options[i].isNone THEN optionAllLoopSkipsNone(options, i + 1, values)
    ELSE optionAllLoopSkipsNone(options, i + 1, Append(values, options[i].value))

RECURSIVE optionAllLoop(_, _, _)
optionAllLoop(options, i, values) ==
    IF i > Len(options) THEN some(Array(values))
    ELSE IF options[i].isNone THEN options[i]
    ELSE optionAllLoop(options, i + 1, Append(values, options[i].value))

optionAll(options) == optionAllLoop(options, 1, <<>>)

RECURSIVE optionAnyLoop(_, _)
optionAnyLoop(options, i) ==
    IF i > Len(options) THEN none
    ELSE IF options[i].isSome THEN options[i]
    ELSE optionAnyLoop(options, i + 1)

optionAny(options) == optionAnyLoop(options, 1)

(***************************************************************************)
(* The synchronous API driven by a caller: one action per method, applied  *)
(* to the receiver `self`; Chain continues a fluent chain on the container *)
(* the last call returned.                                                 *)
(***************************************************************************)
Idle == [c |-> "idle"]
NoAccess == [on |-> 0, kind |-> "-", state |-> "none", got |-> Null, again |-> FALSE]
NoCall == [fn |-> NoFn, op |-> "-", args |-> <<>>]

\* The containers a caller builds with Result.ok, Result.err, Option.some, Option.none.
Constructed ==
    {ok(x) : x \in Atoms} \cup {err(x) : x \in Atoms} \cup {some(Str("a")), none}

\* The arguments handed to the combinators.
ArgLists ==
    UNION {[1..n -> {ok(Str("a")), ok(Str("b")), err(Str("a")), err(Str("b"))}] :
            n \in 0..MaxArgs}

IsResult(v) == v.k = "Result"
IsOption(v) == v.k = "Option"

InitSync ==
    /\ self \in Constructed
    /\ call = NoCall
    /\ ret = Idle
    /\ invoked = <<>>
    /\ source = Null
    /\ asyncs = <<>>
    /\ access = NoAccess
    /\ heap = <<>>

Invoke(op, fn) ==
    LET o == Method(self, op, fn)
    IN  /\ call' = [fn |-> fn, op |-> op, args |-> <<>>]
        /\ ret' = o.completion
        /\ invoked' = o.calls
        /\ UNCHANGED <<self, heap, asyncVars>>

Map == \E fn \in ValueFns : Invoke("map", fn)

FlatMap ==
    \/ IsResult(self) /\ \E fn \in ResultFns : Invoke("flatMap", fn)
    \/ IsOption(self) /\ \E fn \in OptionFns : Invoke("flatMap", fn)

MapErr == IsResult(self) /\ \E fn \in ValueFns : Invoke("mapErr", fn)

FlatMapErr == IsResult(self) /\ \E fn \in ResultFns : Invoke("flatMapErr", fn)

Tuple == IsResult(self) /\ Invoke("tuple", NoFn)

Unsafe == IsResult(self) /\ Invoke("unsafe", NoFn)

Combine(op, results, combined) ==
    /\ call' = [fn |-> NoFn, op |-> op, args |-> results]
    /\ ret' = Return(combined)
    /\ invoked' = <<>>
    /\ UNCHANGED <<self, heap, asyncVars>>

ResultAll == \E results \in ArgLists : Combine("all", results, all(results))

ResultAny == \E results \in ArgLists : Combine("any", results, any(results))

Chain ==
    /\ ret.c = "return"
    /\ IsResult(ret.v) \/ IsOption(ret.v)
    /\ self' = ret.v
    /\ call' = NoCall
    /\ ret' = Idle
    /\ invoked' = <<>>
    /\ UNCHANGED <<heap, asyncVars>>

NextSync ==
    \/ Map \/ FlatMap \/ MapErr \/ FlatMapErr \/ Tuple \/ Unsafe
    \/ ResultAll \/ ResultAny
    \/ Chain

SpecSync == InitSync /\ [][NextSync]_vars

(***************************************************************************)
(* class Async.  An instance holds `result`, a Result or a promise of one, *)
(* here the state of that promise.  An instance made by map, flatMap,      *)
(* mapErr or flatMapErr wraps the promise of its `nextPromise()` call; pc  *)
(* is the await that call is suspended at, `promise` the promise of the    *)
(* `async (x) => fn(x)` call it awaits, calls the number of calls of fn.   *)
(***************************************************************************)
Pending == [state |-> "pending"]
Fulfilled(value) == [value |-> value, state |-> "fulfilled"]
Rejected(reason) == [state |-> "rejected", reason |-> reason]
NoPromise == [state |-> "none"]

\* Result.async(result)
async(result) ==
    [fn |-> NoFn, calls |-> 0, op |-> "async", result |-> result,
     parent |-> 0, pc |-> "done", promise |-> NoPromise]

\* fn returns a promise of its own, which settles when its work is done.
ReturnsPromise(fn, x) ==
    LET b == Body(fn.name, x) IN b.c = "return" /\ IsPromise(b.v)

\* nextPromise returns `result`, after the calls of o.
Returns(stage, o, result) ==
    [stage EXCEPT
        !.pc = "done",
        !.fn = IF o.calls = <<>> THEN @ ELSE Fn(o.calls[1].fn.name),
        !.calls = @ + Len(o.calls),
        !.result = Fulfilled(result)]

\* The await of `promise` left out: the promise itself is wrapped and returned.
AwaitsNothing(stage, o, promise) ==
    [Returns(stage, o, ok(promise)) EXCEPT
        !.promise = [state |-> IF \E n \in 1..Len(o.calls) :
                                     ReturnsPromise(o.calls[n].fn, o.calls[n].arg)
                                THEN "pending" ELSE "settled",
                     settles |-> promise.settles]]

\* nextPromise suspends at an await of `promise`, after the calls of o.
Awaits(stage, o, promise) ==
    [stage EXCEPT
        !.pc = "await promise",
        !.fn = IF o.calls = <<>> THEN @ ELSE Fn(o.calls[1].fn.name),
        !.calls = @ + Len(o.calls),
        !.promise = [state |-> IF \E n \in 1..Len(o.calls) :
                                     ReturnsPromise(o.calls[n].fn, o.calls[n].arg)
                                THEN "pending" ELSE "settled",
                     settles |-> promise.settles]]

Throws(stage, reason) ==
    [stage EXCEPT !.pc = "done", !.result = Rejected(reason)]

TupleOf(result) == Method(result, "tuple", NoFn).completion.v.items

\* `awaited.effect(fn)`, `awaited.effectErr(fn)`
EffectOps == {"effect", "effectErr"}
EffectOf(awaited, op, fn) ==
    CASE op = "effect" /\ awaited.isOk     -> OkEffect(awaited, fn)
      [] op = "effect" /\ awaited.isErr    -> ErrEffect(awaited, fn)
      [] op = "effectErr" /\ awaited.isOk  -> OkEffectErr(awaited, fn)
      [] op = "effectErr" /\ awaited.isErr -> ErrEffectErr(awaited, fn)

\* The reaction `(awaited) => awaited.effect(fn)` has run with outcome o: the
\* promise that `then` derived resolves to what it returned, or rejects with
\* what it threw.
Reacted(stage, o) ==
    [stage EXCEPT
        !.pc = "done",
        !.fn = IF o.calls = <<>> THEN @ ELSE Fn(o.calls[1].fn.name),
        !.calls = @ + Len(o.calls),
        !.result = IF o.completion.c = "throw" THEN Rejected(o.completion.v)
                   ELSE Fulfilled(o.completion.v)]

\* nextPromise run again from its start on every resumption: the function is
\* called once more.
AfterResultAgain(stage, fn, awaited) ==
    [stage EXCEPT
        !.fn = fn,
        !.calls = @ + Len(IF stage.op \in EffectOps
                          THEN EffectOf(awaited, stage.op, fn).calls
                          ELSE Method(awaited, stage.op, AsyncArrow(fn)).calls)]

\* nextPromise from `await this.result` to its next await or its return.
AfterResult(stage, fn, awaited) ==
    LET o == Method(awaited, stage.op, AsyncArrow(fn))
        returned == o.completion.v
    IN  CASE stage.op = "map" ->
                LET promise == TupleOf(returned)[1]
                    error == TupleOf(returned)[2]
                IN  IF Truthy(promise) THEN Awaits(stage, o, promise)
                    ELSE Returns(stage, o, err(error))
          [] stage.op = "mapErr" ->
                LET okValue == TupleOf(returned)[1]
                    promise == TupleOf(returned)[2]
                IN  IF Truthy(promise) THEN Awaits(stage, o, promise)
                    ELSE Returns(stage, o, ok(okValue))
          [] stage.op \in {"flatMap", "flatMapErr"} ->
                IF IsPromise(returned) THEN Awaits(stage, o, returned)
                ELSE Returns(stage, o, returned)
          [] stage.op \in EffectOps -> Reacted(stage, EffectOf(awaited, stage.op, fn))

\* nextPromise from `await promise` (or the promise it returned) to its end.
AfterPromise(stage) ==
    LET settled == stage.promise.settles
        noCalls == Outcome(settled, <<>>)
    IN  IF settled.c = "throw" THEN Throws(stage, settled.v)
        ELSE CASE stage.op = "map"    -> Returns(stage, noCalls, ok(settled.v))
               [] stage.op = "mapErr" -> Returns(stage, noCalls, err(settled.v))
               [] stage.op \in {"flatMap", "flatMapErr"} ->
                                         Returns(stage, noCalls, settled.v)

\* `resolve(await this.result)` of then, `awaited.unsafe()` of unsafe.
UnsafeValue(awaited) == Method(awaited, "unsafe", NoFn).completion.v
\* then written like unsafe: resolve is handed the payload.
ThenValuePayload(awaited) == UnsafeValue(awaited)
ThenValue(awaited) == awaited

(***************************************************************************)
(* The asynchronous API driven by a caller and by the promise jobs.        *)
(***************************************************************************)
Stages == 1..Len(asyncs)

\* The functions a caller hands to a method.
FnsOf(op) ==
    CASE op \in {"map", "mapErr"} -> ValueFns
      [] op \in {"flatMap", "flatMapErr"} -> ResultFns
      [] op \in EffectOps -> Effects
      [] OTHER -> {}

\* `return Result.async(promise.then(...))` for `return this`: effect hands
\* back an instance that wraps the promise `then` derived.
effectReturnsDerived(this, derived) == derived
\* `return this` of effect and effectErr.
effectReturns(this, derived) == this

\* The instance the call that made entry i returned: the new instance of a
\* transformation, the receiver of effect and effectErr.
Wrapper(i) ==
    IF asyncs[i].op \in EffectOps THEN effectReturns(asyncs[i].parent, i) ELSE i

\* The instances a caller holds.
Instances == {Wrapper(i) : i \in Stages}

\* nextPromise without its first await: when the instance has resolved
\* already, the body runs inside the call of the method.
nextPromiseNoAwait(parent, op) ==
    LET stage == [fn |-> NoFn, calls |-> 0, op |-> op, result |-> Pending,
                  parent |-> parent, pc |-> "await result", promise |-> NoPromise]
        awaited == asyncs[parent].result
    IN  IF awaited.state = "fulfilled"
        THEN AfterResult(stage, CHOOSE fn \in FnsOf(op) : TRUE, awaited.value)
        ELSE stage

\* `Result.async(nextPromise())`: nextPromise runs up to `await this.result`.
\* Nothing reads fn before nextPromise calls it: the function the caller
\* handed over is drawn at that call, and recorded in the instance then.
nextPromise(parent, op) ==
    [fn |-> NoFn, calls |-> 0, op |-> op, result |-> Pending,
     parent |-> parent, pc |-> "await result", promise |-> NoPromise]


\* The caller is one task: it is suspended while an access it awaits is pending.
CallerRuns == access.state # "pending"

\* The Results a wrapped computation resolves to: Result.ok('a'),
\* Result.err('a') and Result.ok('a').map(() => {}).
InitAsync ==
    /\ source \in {ok(Str("a")), err(Str("a")),
                   Method(ok(Str("a")), "map", Fn("void")).completion.v}
    /\ asyncs \in {<<async(Pending)>>, <<async(Fulfilled(source))>>}
    /\ access = NoAccess
    /\ self = Null
    /\ call = NoCall
    /\ ret = Idle
    /\ invoked = <<>>
    /\ heap = <<>>

\* The wrapped computation resolves.
SourceSettles ==
    /\ asyncs[1].result = Pending
    /\ asyncs' = [asyncs EXCEPT ![1].result = Fulfilled(source)]
    /\ UNCHANGED <<source, access, syncVars>>

Chains(parent, op) ==
    /\ CallerRuns
    /\ Len(asyncs) <= MaxStages
    /\ asyncs' = Append(asyncs, nextPromise(parent, op))
    /\ UNCHANGED <<source, access, syncVars>>

AsyncMap == \E parent \in Instances : Chains(parent, "map")
AsyncFlatMap == \E parent \in Instances : Chains(parent, "flatMap")
AsyncMapErr == \E parent \in Instances : Chains(parent, "mapErr")
AsyncFlatMapErr == \E parent \in Instances : Chains(parent, "flatMapErr")

\* `Promise.resolve(this.result).then((awaited) => awaited.effect(fn))`: the
\* reaction is registered on the promise the instance wraps.
Reacts(parent, op) ==
    /\ CallerRuns
    /\ Len(asyncs) <= MaxStages
    /\ asyncs' = Append(asyncs, [fn |-> NoFn, calls |-> 0, op |-> op, result |-> Pending,
                                 parent |-> parent, pc |-> "await result",
                                 promise |-> NoPromise])
    /\ UNCHANGED <<source, access, syncVars>>

AsyncEffect == \E parent \in Instances : Reacts(parent, "effect")
AsyncEffectErr == \E parent \in Instances : Reacts(parent, "effectErr")

\* `await this.result` completes in a nextPromise call, or the reaction of
\* an effect runs.  The reactions to one promise run in the order in which
\* they were registered.
ResultAwaited ==
    \E i \in Stages : \E fn \in FnsOf(asyncs[i].op) :
        LET awaited == asyncs[asyncs[i].parent].result
        IN  /\ asyncs[i].pc = "await result"
            /\ awaited # Pending
            /\ \A j \in 1..(i - 1) :
                    asyncs[j].parent = asyncs[i].parent => asyncs[j].pc # "await result"
            /\ asyncs' = [asyncs EXCEPT ![i] =
                            IF awaited.state = "rejected"
                            THEN Throws(asyncs[i], awaited.reason)
                            ELSE AfterResult(asyncs[i], fn, awaited.value)]
            /\ UNCHANGED <<source, access, syncVars>>

\* The promise a caller-supplied function returned settles.
PromiseSettles ==
    \E i \in Stages :
        /\ asyncs[i].pc = "await promise"
        /\ asyncs[i].promise.state = "pending"
        /\ asyncs' = [asyncs EXCEPT ![i].promise.state = "settled"]
        /\ UNCHANGED <<source, access, syncVars>>

\* `await promise` completes in a nextPromise call.
PromiseAwaited ==
    \E i \in Stages :
        /\ asyncs[i].pc = "await promise"
        /\ asyncs[i].promise.state = "settled"
        /\ asyncs' = [asyncs EXCEPT ![i] = AfterPromise(asyncs[i])]
        /\ UNCHANGED <<source, access, syncVars>>

Accesses(on, kind) ==
    /\ CallerRuns
    /\ access' = [on |-> on, kind |-> kind, state |-> "pending", got |-> Null,
                  again |-> access.on = on]
    /\ UNCHANGED <<source, asyncs, syncVars>>

\* `await wrapper`, `await wrapper.unsafe()`; `again` tells that the access
\* before this one was made on the same instance.
AsyncThen == \E on \in Instances : Accesses(on, "then")
AsyncUnsafe == \E on \in Instances : Accesses(on, "unsafe")

\* `await this.result` completes in the then or unsafe call.  unsafe is an
\* async method: its promise rejects when the await throws.  then is handed
\* resolve and reject by the caller's await and uses resolve only: when its
\* await throws, neither is called and the caller's await stays pending.
AccessAwaited ==
    LET awaited == asyncs[access.on].result
    IN  /\ access.state = "pending"
        /\ awaited # Pending
        /\ awaited.state = "rejected" => access.kind = "unsafe"
        /\ access' =
                IF awaited.state = "rejected"
                THEN [access EXCEPT !.state = "threw", !.got = awaited.reason]
                ELSE [access EXCEPT !.state = "resolved",
                                    !.got = IF access.kind = "then"
                                            THEN ThenValue(awaited.value)
                                            ELSE UnsafeValue(awaited.value)]
        /\ UNCHANGED <<source, asyncs, syncVars>>

NextAsync ==
    \/ SourceSettles
    \/ AsyncMap \/ AsyncFlatMap \/ AsyncMapErr \/ AsyncFlatMapErr
    \/ AsyncEffect \/ AsyncEffectErr
    \/ ResultAwaited \/ PromiseSettles \/ PromiseAwaited
    \/ AsyncThen \/ AsyncUnsafe \/ AccessAwaited

SpecAsync == InitAsync /\ [][NextAsync]_vars

\* The promise jobs are run by the host's job queue: a job that is ready runs.
SpecAsyncFair ==
    /\ SpecAsync
    /\ WF_vars(ResultAwaited)
    /\ WF_vars(PromiseAwaited)
    /\ WF_vars(AccessAwaited)

(***************************************************************************)
(* The constructors, the conversions, or and okOrThrow driven by a caller. *)
(***************************************************************************)
Receivers ==
    {ok(x) : x \in Values} \cup {err(x) : x \in Values}
        \cup {some(x) : x \in Values} \cup {none}

OptionLists == UNION {[1..n -> {some(Str("a")), some(Str("b")), none}] : n \in 0..MaxArgs}

\* What Result.safe and Option.safe are handed: a function, or the promise itself.
\* The promises: Promise.resolve('a'), Promise.resolve(undefined), Promise.reject('boom')
SafeArgs ==
    Thunks \cup {Promise(Return(Str("a"))), Promise(Return(Undefined)),
                 Promise(Throw(Str("boom")))}

InitApi ==
    /\ self \in Receivers
    /\ call = NoCall
    /\ ret = Idle
    /\ invoked = <<>>
    /\ source = Null
    /\ asyncs = <<>>
    /\ access = NoAccess
    /\ heap = <<>>

Does(op, fn, args, o) ==
    /\ call' = [fn |-> fn, op |-> op, args |-> args]
    /\ ret' = o.completion
    /\ invoked' = o.calls
    /\ UNCHANGED <<self, heap, asyncVars>>

\* Result.ok(value) and Result.ok(): a missing argument is undefined.
ResultOk ==
    \E args \in {<<>>} \cup {<<v>> : v \in Values} :
        LET value == IF args = <<>> THEN Undefined ELSE args[1]
        IN  Does("ok", NoFn, args, Outcome(Return(ok(value)), <<>>))

ResultFrom ==
    \E value \in Values :
        Does("from", NoFn, <<value, Str("e")>>,
             Outcome(Return(from(value, Str("e"))), <<>>))

ResultFromNullable ==
    \E value \in Values :
        Does("fromNullable", NoFn, <<value, Str("e")>>,
             Outcome(Return(fromNullable(value, Str("e"))), <<>>))

ResultSafe == \E fn \in SafeArgs : Does("safe", NoFn, <<fn>>, safe(fn))

OptionSafe == \E fn \in SafeArgs : Does("Option.safe", NoFn, <<fn>>, optionSafe(fn))

OptionAll ==
    \E options \in OptionLists :
        Does("Option.all", NoFn, options, Outcome(Return(optionAll(options)), <<>>))

OptionAny ==
    \E options \in OptionLists :
        Does("Option.any", NoFn, options, Outcome(Return(optionAny(options)), <<>>))

OkOrThrow ==
    /\ IsResult(self)
    /\ \E fn \in ThrowFns : Does("okOrThrow", fn, <<>>, okOrThrow(self, fn))

Or ==
    \E other \in Receivers :
        /\ other.k = self.k
        /\ Does("or", NoFn, <<other>>, or(self, other))

ToOption == IsResult(self) /\ Does("toOption", NoFn, <<>>, toOption(self))

ToResult == IsOption(self) /\ Does("toResult", NoFn, <<Str("x")>>, toResult(self, Str("x")))

NextApi ==
    \/ ResultOk \/ ResultFrom \/ ResultFromNullable \/ ResultSafe
    \/ OptionSafe \/ OptionAll \/ OptionAny
    \/ ResultAll \/ ResultAny
    \/ OkOrThrow \/ Or \/ ToOption \/ ToResult
    \/ Chain

SpecApi == InitApi /\ [][NextApi]_vars

(***************************************************************************)
(* The containers as objects.  heap[i] is the container kept at address i; *)
(* Option.none is kept at address 0.  A call is made on a kept container   *)
(* or on Option.none, with kept containers for its container arguments.    *)
(* A container the call built is kept at the next free address while there *)
(* is one; a container the call handed back, the receiver or an argument,  *)
(* is the object at its address, with the fields the call left it with.    *)
(***************************************************************************)
IsContainer(v) == v.k \in {"Result", "Option"}
IsKept(v) == "ref" \in DOMAIN v

Kept == {heap[i] : i \in DOMAIN heap} \cup {none}
KeptOptions == {o \in Kept : IsOption(o)}
KeptResults == {r \in Kept : IsResult(r)}

\* The heap and the completion after a call with outcome o.
Keeps(o) ==
    LET c == o.completion
        at == Len(heap) + 1
    IN  IF c.c = "throw" \/ ~IsContainer(c.v) THEN [heap |-> heap, completion |-> c]
        ELSE IF IsKept(c.v)
        THEN [heap |-> IF c.v.ref = 0 THEN heap ELSE [heap EXCEPT ![c.v.ref] = c.v],
              completion |-> c]
        ELSE IF at <= MaxObjects
        THEN [heap |-> Append(heap, Ref(c.v, at)), completion |-> Return(Ref(c.v, at))]
        ELSE [heap |-> heap, completion |-> c]

\* The payloads, the fallbacks and the errors of this part of the model.
Payloads == {Str("a"), Null}
Fallback == Str("x")

\* The argument lists of Option.all and Option.any, of Result.all and Result.any.
KeptLists(kept) == UNION {[1..n -> kept] : n \in 0..(MaxObjects + 1)}

InitObjects ==
    /\ heap = <<>>
    /\ self = Null
    /\ call = NoCall
    /\ ret = Idle
    /\ invoked = <<>>
    /\ source = Null
    /\ asyncs = <<>>
    /\ access = NoAccess

\* A call of an exported function.
Builds(op, args, o) ==
    /\ self' = Null
    /\ call' = [fn |-> NoFn, op |-> op, args |-> args]
    /\ ret' = Keeps(o).completion
    /\ invoked' = o.calls
    /\ heap' = Keeps(o).heap
    /\ UNCHANGED asyncVars

\* A call of a method on a kept container.
Sends(this, op, fn, args) ==
    LET o == Member(this, op, IF args = <<>> THEN fn ELSE args[1])
    IN  /\ self' = this
        /\ call' = [fn |-> fn, op |-> op, args |-> args]
        /\ ret' = Keeps(o).completion
        /\ invoked' = o.calls
        /\ heap' = Keeps(o).heap
        /\ UNCHANGED asyncVars

Returning(v) == Outcome(Return(v), <<>>)
Built(op, args, o) == [op |-> op, args |-> args, o |-> o]
Sent(op, fn, args) == [fn |-> fn, op |-> op, args |-> args]

ResultConstructors ==
    \E value \in Payloads :
        \E b \in {Built("ok", <<value>>, Returning(ok(value))),
                  Built("err", <<value>>, Returning(err(value))),
                  Built("from", <<value, Fallback>>, Returning(from(value, Fallback))),
                  Built("fromNullable", <<value, Fallback>>,
                        Returning(fromNullable(value, Fallback)))} :
            Builds(b.op, b.args, b.o)

OptionConstructors ==
    \E value \in Payloads :
        \E b \in {Built("Option.none", <<>>, Returning(none)),
                  Built("Option.some", <<value>>, Returning(some(value))),
                  Built("Option.from", <<value>>, Returning(optionFrom(value))),
                  Built("Option.fromNullable", <<value>>,
                        Returning(optionFromNullable(value)))} :
            Builds(b.op, b.args, b.o)

Safes ==
    \E fn \in Thunks :
        \E b \in {Built("safe", <<fn>>, safe(fn)),
                  Built("Option.safe", <<fn>>, optionSafe(fn))} :
            Builds(b.op, b.args, b.o)

Combinators ==
    \E b \in {Built("all", results, Returning(all(results))) :
                    results \in KeptLists(KeptResults)}
        \cup {Built("any", results, Returning(any(results))) :
                    results \in KeptLists(KeptResults)}
        \cup {Built("Option.all", options, Returning(optionAll(options))) :
                    options \in KeptLists(KeptOptions)}
        \cup {Built("Option.any", options, Returning(optionAny(options))) :
                    options \in KeptLists(KeptOptions)} :
        Builds(b.op, b.args, b.o)

\* map, flatMap, mapErr, flatMapErr, filter
Transforms ==
    \E this \in Kept :
        \E m \in {Sent("map", fn, <<>>) : fn \in ValueFns}
            \cup {Sent("flatMap", fn, <<>>) :
                    fn \in (IF IsResult(this) THEN ResultFns ELSE OptionFns)}
            \cup {Sent("mapErr", fn, <<>>) :
                    fn \in (IF IsResult(this) THEN ValueFns ELSE {})}
            \cup {Sent("flatMapErr", fn, <<>>) :
                    fn \in (IF IsResult(this) THEN ResultFns ELSE {})}
            \cup {Sent("filter", fn, <<>>) : fn \in {Fn("isA"), Fn("void"), Fn("raise")}} :
            Sends(this, m.op, m.fn, m.args)

\* unsafe, tuple, okOr, errorOr, someOr, noneOr and their OrElse forms
Accessors ==
    \E this \in Kept :
        \E m \in {Sent("unsafe", NoFn, <<Undefined>>)}
            \cup {Sent("tuple", NoFn, <<>>) : x \in (IF IsResult(this) THEN {1} ELSE {})}
            \cup {Sent(op, NoFn, <<Fallback>>) :
                    op \in (IF IsResult(this) THEN {"okOr", "errorOr"}
                            ELSE {"someOr", "noneOr"})}
            \cup {Sent(op, fn, <<>>) :
                    op \in (IF IsResult(this) THEN {"okOrElse", "errorOrElse"}
                            ELSE {"someOrElse", "noneOrElse"}),
                    fn \in {Fn("swap"), Fn("raise")}} :
            Sends(this, m.op, m.fn, m.args)

\* okOrThrow, errorOrThrow, someOrThrow, noneOrThrow
OrThrows ==
    \E this \in Kept :
        \E m \in (IF IsResult(this)
                  THEN {Sent(op, fn, <<>>) : op \in {"okOrThrow", "errorOrThrow"},
                                             fn \in ThrowFns}
                  ELSE {Sent(op, NoFn, <<Error(Fallback)>>) :
                            op \in {"someOrThrow", "noneOrThrow"}}) :
            Sends(this, m.op, m.fn, m.args)

\* or, toOption, toResult
Converts ==
    \E this \in Kept :
        \E m \in {Sent("or", NoFn, <<other>>) :
                    other \in (IF IsResult(this) THEN KeptResults ELSE KeptOptions)}
            \cup (IF IsResult(this) THEN {Sent("toOption", NoFn, <<>>)}
                  ELSE {Sent("toResult", NoFn, <<Fallback>>)}) :
            Sends(this, m.op, m.fn, m.args)

\* effect, effectErr, effectNone
Effect ==
    \E this \in Kept :
        \E m \in {Sent(op, fn, <<>>) :
                    op \in (IF IsResult(this) THEN {"effect", "effectErr"}
                            ELSE {"effect", "effectNone"}),
                    fn \in Effects} :
            Sends(this, m.op, m.fn, m.args)

NextObjects ==
    \/ ResultConstructors \/ OptionConstructors \/ Safes \/ Combinators
    \/ Transforms \/ Accessors \/ OrThrows \/ Converts \/ Effect

SpecObjects == InitObjects /\ [][NextObjects]_vars

\* A caller works on kept containers, or on the chain of one Async instance.
InitAll == InitObjects \/ InitAsync

NextAll ==
    \/ asyncs = <<>> /\ NextObjects
    \/ asyncs # <<>> /\ NextAsync

SpecAll == InitAll /\ [][NextAll]_vars

(***************************************************************************)
(* Properties of the synchronous API (SpecSync).                           *)
(***************************************************************************)

\* C1: map and flatMap on an Err return an Err holding the same error and
\* invoke no function; on Option.none they return Option.none and invoke no
\* function.
C1_SyncShortCircuit ==
    (call.op \in {"map", "flatMap"} /\ self.type \in {"Err", "None"}) =>
        /\ invoked = <<>>
        /\ ret.c = "return"
        /\ self.type = "Err" => ret.v.type = "Err" /\ ret.v.error = self.error
        /\ self.type = "None" => ret.v = none

C1_Witness ==
    /\ call = [fn |-> Fn("okSwap"), op |-> "flatMap", args |-> <<>>]
    /\ self = err(Str("a"))
    /\ ret = Return(err(Str("a")))

\* C3: map on an Ok with a function that returns a promise returns a promise
\* that resolves to the Ok of the function's resolved value.
C3_MapAsyncReturnsPromise ==
    (call.op = "map" /\ self.type = "Ok" /\ call.fn = Fn("later")) =>
        /\ ret.c = "return"
        /\ IsPromise(ret.v)
        /\ ret.v.settles = Return(Ok(swap(self.value)))

\* C9: Result.all returns the Ok of every value, in input order, when every
\* input is Ok, and the first Err of the input otherwise.
FirstIndex(results, P(_)) ==
    CHOOSE i \in 1..Len(results) : P(results[i]) /\ \A j \in 1..(i - 1) : ~P(results[j])
IsOk(r) == r.isOk
IsErr(r) == r.isErr

C9_AllLaw ==
    call.op = "all" =>
        LET results == call.args
        IN  /\ ret.c = "return"
            /\ IF \A i \in 1..Len(results) : results[i].isOk
               THEN /\ ret.v.type = "Ok"
                    /\ ret.v.value.k = "array"
                    /\ Len(ret.v.value.items) = Len(results)
                    /\ \A i \in 1..Len(results) : ret.v.value.items[i] = results[i].value
               ELSE ret.v = results[FirstIndex(results, IsErr)]

C9_Witness ==
    /\ call.op = "all"
    /\ call.args = <<ok(Str("a")), err(Str("b")), err(Str("a"))>>
    /\ ret = Return(err(Str("b")))

\* C10: Result.any returns the first Ok of the input when there is one, and
\* otherwise the Err of every input's error, in input order.
C10_AnyLaw ==
    call.op = "any" =>
        LET results == call.args
        IN  /\ ret.c = "return"
            /\ IF \E i \in 1..Len(results) : results[i].isOk
               THEN ret.v = results[FirstIndex(results, IsOk)]
               ELSE /\ ret.v.type = "Err"
                    /\ ret.v.error.k = "array"
                    /\ Len(ret.v.error.items) = Len(results)
                    /\ \A i \in 1..Len(results) : ret.v.error.items[i] = results[i].error

C10_Witness ==
    /\ call.op = "any"
    /\ call.args = <<err(Str("a")), err(Str("b"))>>
    /\ ret = Return(err(Array(<<Str("a"), Str("b")>>)))

(***************************************************************************)
(* Properties of class Async (SpecAsync).                                  *)
(***************************************************************************)
\* j is an instance the instance i was derived from, directly or not.
RECURSIVE IsAncestor(_, _)
IsAncestor(j, i) ==
    /\ asyncs[i].parent # 0
    /\ asyncs[i].parent = j \/ IsAncestor(j, asyncs[i].parent)

\* The functions that return a plain value, neither a promise nor a throw.
PlainFns == {fn \in ValueFns : Body(fn.name, Null).c = "return" /\ ~ReturnsPromise(fn, Null)}

\* C2: awaiting Result.async(c).map(f) yields the variant and the payload of
\* the synchronous c.map(f), for every Result c and every function f that
\* returns a plain value.
C2_AsyncMapParity ==
    \A i \in Stages :
        (/\ asyncs[i].parent = 1
         /\ asyncs[i].op = "map"
         /\ asyncs[i].result.state = "fulfilled") =>
            \A f \in (IF asyncs[i].calls = 0 THEN PlainFns ELSE {asyncs[i].fn} \cap PlainFns) :
                asyncs[i].result.value = Method(source, "map", f).completion.v

\* C4: a transformation chained on an instance that resolved to Err calls no
\* map or flatMap function and passes the Err on with its error unchanged;
\* one chained on an instance that resolved to Ok calls no mapErr or
\* flatMapErr function and passes the Ok on with its value unchanged.
C4_AsyncShortCircuit ==
    \A i \in Stages \ {1} :
        LET awaited == asyncs[asyncs[i].parent].result
            stage == asyncs[i]
        IN  awaited.state = "fulfilled" =>
                /\ (awaited.value.isErr /\ stage.op \in {"map", "flatMap"}) =>
                        /\ stage.calls = 0
                        /\ stage.result.state = "fulfilled" =>
                                /\ stage.result.value.isErr
                                /\ stage.result.value.error = awaited.value.error
                /\ (awaited.value.isOk /\ stage.op \in {"mapErr", "flatMapErr"}) =>
                        /\ stage.calls = 0
                        /\ stage.result.state = "fulfilled" =>
                                /\ stage.result.value.isOk
                                /\ stage.result.value.value = awaited.value.value

\* C5, as claimed: no function handed to a transformation is called before
\* the caller awaits a wrapper or invokes a terminal accessor.
C5_LazyUntilAwaited ==
    \A i \in Stages : asyncs[i].calls > 0 => access # NoAccess

\* C5, amended: the call of map, flatMap, mapErr or flatMapErr itself calls
\* no function; a function is called in a later step only, on an instance
\* that exists already, after the instance it was derived from has resolved.
CallsBefore(i) == IF i <= Len(asyncs) THEN asyncs[i].calls ELSE 0

C5_CalledAfterResolution ==
    [][\A i \in 1..Len(asyncs') :
            asyncs'[i].calls > CallsBefore(i) =>
                /\ i <= Len(asyncs)
                /\ asyncs[asyncs[i].parent].result.state = "fulfilled"]_vars

\* A function has been called though the caller never awaited anything.
C5_Witness ==
    /\ Len(asyncs) = 2
    /\ asyncs[2].calls = 1
    /\ asyncs[2].result.state = "fulfilled"
    /\ access = NoAccess

\* C6: when the function of an instance is called, every instance it was
\* derived from is done, the promise of its own function settled; no
\* instance is between the call of its function and its resolution while an
\* instance it was derived from is.
InFlight(i) == asyncs[i].calls > 0 /\ (asyncs[i].pc # "done" \/ asyncs[i].promise.state = "pending")

C6_ChainOrder ==
    \A i \in Stages, j \in Stages :
        IsAncestor(j, i) =>
            /\ asyncs[i].calls > 0 =>
                    /\ asyncs[j].pc = "done"
                    /\ asyncs[j].promise.state # "pending"
                    /\ asyncs[j].result.state = "fulfilled"
            /\ ~(InFlight(i) /\ InFlight(j))

\* Two chained functions, each returning a promise: the second is in flight,
\* the first has resolved.
C6_Witness ==
    /\ Len(asyncs) = 3
    /\ asyncs[2].parent = 1 /\ asyncs[3].parent = 2
    /\ asyncs[2].fn = Fn("laterOk") /\ asyncs[2].pc = "done"
    /\ asyncs[3].fn = Fn("later") /\ asyncs[3].pc = "await promise"
    /\ asyncs[3].promise.state = "pending"

\* C7: the function of an instance is called at most once and a resolved
\* instance keeps the Result it resolved to, whatever the caller awaits,
\* accesses or derives.
C7_SingleResolution ==
    [][\A i \in Stages :
            /\ asyncs'[i].calls <= 1
            /\ asyncs[i].result # Pending => asyncs'[i].result = asyncs[i].result]_vars

\* An instance awaited twice, with two chains derived from it, whose function
\* was called once.
C7_Witness ==
    /\ Len(asyncs) = 3
    /\ asyncs[2].parent = 1 /\ asyncs[3].parent = 1
    /\ asyncs[2].calls = 1 /\ asyncs[3].calls = 1
    /\ access.on = 2 /\ access.again /\ access.state = "resolved"

\* C8: awaiting an instance yields the Result it resolved to, not its payload.
C8_AwaitYieldsResult ==
    (access.kind = "then" /\ access.state = "resolved") =>
        /\ IsResult(access.got)
        /\ access.got = asyncs[access.on].result.value
        /\ access.on = 1 => access.got = source

C8_Witness ==
    /\ access.kind = "then" /\ access.state = "resolved"
    /\ access.on = 1
    /\ access.got = ok(Str("a"))

(***************************************************************************)
(* Properties of the constructors, the conversions, or and okOrThrow       *)
(* (SpecApi), and of tuple (SpecSync).                                     *)
(***************************************************************************)
IsSome(o) == o.isSome
Present(c) == c.type \in {"Ok", "Some"}

Falsy == {Str(""), Num(0), Bool(FALSE), Null, Undefined}

C12_NullableAndTruthy ==
    /\ call.op = "fromNullable" =>
        /\ ret.c = "return"
        /\ ret.v = err(call.args[2]) <=> call.args[1] = Null
        /\ call.args[1] # Null => ret.v.isOk
        /\ call.args[1] = Num(0) => ret.v = Ok(Num(0))
    /\ call.op = "from" =>
        /\ ret.c = "return"
        /\ ret.v = err(call.args[2]) <=> call.args[1] \in Falsy
        /\ call.args[1] \notin Falsy => ret.v = Ok(call.args[1])

C12_Witness ==
    /\ call.op = "fromNullable"
    /\ call.args[1] = Num(0)
    /\ ret = Return(Ok(Num(0)))

\* C13: Result.ok(v) is the Ok whose payload is exactly v, for every v handed
\* to it, undefined and the falsy values included; Result.ok() holds null.
C13_OkKeepsPayload ==
    call.op = "ok" =>
        /\ ret.c = "return"
        /\ call.args # <<>> => ret.v = Ok(call.args[1])
        /\ call.args = <<>> => ret.v = Ok(Null)

\* C14: okOrThrow on Ok(v) returns v, throws nothing and calls no function;
\* on Err(e) with a function it calls fn(e) once and throws what fn returned;
\* on Err(e) with no function it throws e.
C14_ThrowingBoundary ==
    call.op = "okOrThrow" =>
        /\ self.isOk => ret = Return(self.value) /\ invoked = <<>>
        /\ (self.isErr /\ call.fn # NoFn) =>
            /\ invoked = <<Invocation(call.fn, self.error)>>
            /\ ret.c = "throw"
            /\ Body(call.fn.name, self.error).c = "return" =>
                   ret.v = Body(call.fn.name, self.error).v
        /\ (self.isErr /\ call.fn = NoFn) => ret = Throw(self.error)

\* C15: Result.ok(v).toOption().toResult(x) is Result.ok(v),
\* Option.some(v).toResult(x).toOption() is Option.some(v), and
\* Option.none.toResult(x) is Result.err(x).
C15_RoundTrip ==
    /\ (call.op = "toOption" /\ self.isOk) =>
        /\ ret.c = "return"
        /\ toResult(ret.v, Str("x")).completion = Return(self)
    /\ (call.op = "toResult" /\ self.type = "Some") =>
        /\ ret.c = "return"
        /\ toOption(ret.v).completion = Return(self)
    /\ (call.op = "toResult" /\ self.type = "None") =>
        ret = Return(err(call.args[1]))

\* C16: tuple of an Ok is [value, null]; tuple of an Err is [null, error].
C16_TupleLaw ==
    call.op = "tuple" =>
        /\ invoked = <<>>
        /\ ret = Return(Array(IF self.isOk THEN <<self.value, Null>>
                              ELSE <<Null, self.error>>))

C16_Witness ==
    /\ call.op = "tuple"
    /\ self = err(Str("a"))
    /\ ret = Return(Array(<<Null, Str("a")>>))

\* C17: Result.safe(fn) with a synchronous fn throws nothing: it returns the
\* Ok of what fn returned, or the Err of what fn threw.
C17_SafeSync ==
    (call.op = "safe" /\ IsCallable(call.args[1])
        /\ ~ReturnsPromise(call.args[1], Undefined)) =>
        LET b == Body(call.args[1].name, Undefined)
        IN  /\ ret.c = "return"
            /\ b.c = "return" => ret.v = Ok(b.v)
            /\ b.c = "throw" => ret.v = Err(b.v)

\* The promise a call of safe is about: the one handed to it, or the one the
\* function handed to it returned.
PromiseOf(arg) == IF IsCallable(arg) THEN Body(arg.name, Undefined).v ELSE arg
AboutPromise(arg) ==
    IF IsCallable(arg) THEN ReturnsPromise(arg, Undefined) ELSE IsPromise(arg)

\* C18: Result.safe on a promise: awaited, it is Ok(v) when the promise
\* resolves with v and Err(r) when the promise rejects with r; awaiting it
\* throws nothing.
C18_SafePromise ==
    (call.op = "safe" /\ AboutPromise(call.args[1])) =>
        LET settles == PromiseOf(call.args[1]).settles
        IN  /\ ret.c = "return"
            /\ Await(ret.v).c = "return"
            /\ settles.c = "return" => Await(ret.v).v = Ok(settles.v)
            /\ settles.c = "throw" => Await(ret.v).v = Err(settles.v)

\* C19: Option.safe on a promise: awaited, it is Some(v) when the promise
\* resolves with v and Option.none when the promise rejects; awaiting it
\* throws nothing.
C19_OptionSafePromise ==
    (call.op = "Option.safe" /\ AboutPromise(call.args[1])) =>
        LET settles == PromiseOf(call.args[1]).settles
        IN  /\ ret.c = "return"
            /\ Await(ret.v).c = "return"
            /\ settles.c = "return" => Await(ret.v).v = Some(settles.v)
            /\ settles.c = "throw" => Await(ret.v).v = none

\* C20: or on an Ok (a Some) returns the receiver, or on an Err (a None)
\* returns the argument; so a.or(b).or(c) is the first Ok (Some) among a, b
\* and c, and c when there is none.
C20_OrFirstSuccess ==
    call.op = "or" =>
        LET a == self
            b == call.args[1]
        IN  /\ invoked = <<>>
            /\ ret = Return(IF Present(a) THEN a ELSE b)
            /\ \A c \in Receivers :
                   c.k = a.k =>
                       or(ret.v, c).completion =
                           Return(IF \E i \in 1..3 : Present(<<a, b, c>>[i])
                                  THEN <<a, b, c>>[FirstIndex(<<a, b, c>>, Present)]
                                  ELSE c)

C20_Witness ==
    /\ call.op = "or"
    /\ self = err(Str("a"))
    /\ call.args = <<ok(Num(0))>>
    /\ ret = Return(ok(Num(0)))

(***************************************************************************)
(* Laws of map (SpecSync).                                                 *)
(***************************************************************************)

\* The pure functions: (x) => swap(x) and (x) => {}.
PureFns == {Fn("swap"), Fn("void")}

\* C21: Result.ok(v).map(f).map(g) has the variant and the payload of
\* Result.ok(v).map((x) => g(f(x))) for pure f and g, and the two maps of
\* the left side call f once and g once.
C21_MapComposition ==
    (call.op = "map" /\ self.type = "Ok" /\ call.fn \in PureFns) =>
        /\ ret.c = "return"
        /\ invoked = <<Invocation(call.fn, self.value)>>
        /\ \A g \in PureFns :
                LET second == Method(ret.v, "map", g)
                    composed == Method(self, "map", Compose(call.fn, g))
                IN  /\ second.completion = composed.completion
                    /\ second.completion.c = "return"
                    /\ second.completion.v.type = "Ok"
                    /\ second.calls = <<Invocation(g, ret.v.value)>>

C21_Witness ==
    /\ call = [fn |-> Fn("void"), op |-> "map", args |-> <<>>]
    /\ self = ok(Str("a"))
    /\ ret = Return(Ok(Undefined))
    /\ Method(ret.v, "map", Fn("swap")).completion = Return(Ok(Str("a")))

(***************************************************************************)
(* Properties of class Async, continued (SpecAsync, SpecAsyncFair).        *)
(***************************************************************************)

\* C26: an await of an Async instance completes once the promise the
\* instance wraps has settled: it resolves when that promise resolved, and
\* it rejects when that promise rejected.
C26_AwaitCompletes ==
    (/\ access.state = "pending"
     /\ access.kind = "then"
     /\ asyncs[access.on].result # Pending) ~> (access.state # "pending")

\* The functions for op that return synchronously, without throwing.
PlainFnsOf(op) ==
    {fn \in FnsOf(op) : Body(fn.name, Null).c = "return" /\ ~ReturnsPromise(fn, Null)}

\* C27: awaiting Result.async(c).flatMap(f), .mapErr(f) or .flatMapErr(f)
\* yields the variant and the payload of the synchronous c.flatMap(f),
\* c.mapErr(f) or c.flatMapErr(f), for every Result c the synchronous
\* methods produce and every function f that returns synchronously.
C27_AsyncParity ==
    \A i \in Stages :
        (/\ asyncs[i].parent = 1
         /\ asyncs[i].op \in {"flatMap", "mapErr", "flatMapErr"}
         /\ asyncs[i].result.state = "fulfilled") =>
            \A f \in (IF asyncs[i].calls = 0 THEN PlainFnsOf(asyncs[i].op)
                      ELSE {asyncs[i].fn} \cap PlainFnsOf(asyncs[i].op)) :
                asyncs[i].result.value = Method(source, asyncs[i].op, f).completion.v

\* Entry j was made after the effect call of entry i, by a call on the
\* instance that call returned or further down the chain from there.
RECURSIVE ChainedAfter(_, _)
ChainedAfter(i, j) ==
    /\ j > i
    /\ asyncs[j].parent # 0
    /\ asyncs[j].parent = Wrapper(i) \/ ChainedAfter(i, asyncs[j].parent)

\* C28: the instance an effect or effectErr call returned resolves to the
\* Result its receiver resolves to, also when fn threw; fn is called at most
\* once, only once the receiver has resolved and only on the matching
\* variant, and then before the function of any transformation chained
\* after the effect call.
C28_AsyncEffect ==
    \A i \in Stages :
        asyncs[i].op \in EffectOps =>
            LET awaited == asyncs[asyncs[i].parent].result
                applies == /\ awaited.state = "fulfilled"
                           /\ \/ asyncs[i].op = "effect" /\ awaited.value.isOk
                              \/ asyncs[i].op = "effectErr" /\ awaited.value.isErr
            IN  /\ asyncs[i].pc = "done" => asyncs[Wrapper(i)].result = awaited
                /\ asyncs[i].calls <= 1
                /\ asyncs[i].calls = 1 => applies
                /\ \A j \in Stages :
                        (ChainedAfter(i, j) /\ asyncs[j].calls > 0 /\ applies) =>
                            asyncs[i].calls = 1

C28_Witness ==
    \E i \in Stages, j \in Stages :
        /\ asyncs[i].op = "effect"
        /\ asyncs[i].fn = Fn("raise")
        /\ asyncs[i].calls = 1
        /\ asyncs[i].result.state = "rejected"
        /\ asyncs[asyncs[i].parent].result = Fulfilled(ok(Str("a")))
        /\ ChainedAfter(i, j)
        /\ asyncs[j].op = "map"
        /\ asyncs[j].calls = 1
        /\ asyncs[j].result.state = "fulfilled"

(***************************************************************************)
(* Laws of the synchronous methods, continued (SpecSync).                  *)
(***************************************************************************)

\* The Results a caller can hold: those built by Result.ok and Result.err,
\* and the Ok of undefined that map builds.
HeldResults == {r \in Constructed : IsResult(r)} \cup {Ok(Undefined)}

Payload(r) == IF r.isOk THEN r.value ELSE r.error

\* C30 as stated: tuple is injective: a Result whose tuple equals
\* self.tuple() element by element has the variant and the payload of self.
C30_TupleInjective ==
    (call.op = "tuple" /\ ret.c = "return") =>
        \A r \in HeldResults :
            TupleOf(r) = ret.v.items => (r.isOk = self.isOk /\ Payload(r) = Payload(self))

\* C30, amended: a Result whose tuple equals self.tuple() element by element
\* has the payload of self, and the variant of self unless that payload is
\* null; the tuples of the Ok of null and of the Err of null are equal.
C30_TupleInjectiveButNull ==
    (call.op = "tuple" /\ ret.c = "return") =>
        /\ \A r \in HeldResults :
                TupleOf(r) = ret.v.items =>
                    /\ Payload(r) = Payload(self)
                    /\ Payload(self) # Null => r.isOk = self.isOk
        /\ Payload(self) = Null => ret.v.items = <<Null, Null>>

C30_Witness ==
    /\ call.op = "tuple"
    /\ self = err(Null)
    /\ ret = Return(Array(<<Null, Null>>))
    /\ TupleOf(ok(Null)) = ret.v.items

(***************************************************************************)
(* Properties of the constructors and conversions, continued (SpecApi).    *)
(***************************************************************************)

\* C29: the combinators called with no argument throw nothing: Result.all()
\* returns the Ok of an empty list, Result.any() the Err of an empty list,
\* Option.all() the Some of an empty list and Option.any() Option.none.
C29_EmptyCombinators ==
    (call.op \in {"all", "any", "Option.all", "Option.any"} /\ call.args = <<>>) =>
        /\ invoked = <<>>
        /\ call.op = "all" => ret = Return(Ok(Array(<<>>)))
        /\ call.op = "any" => ret = Return(Err(Array(<<>>)))
        /\ call.op = "Option.all" => ret = Return(Some(Array(<<>>)))
        /\ call.op = "Option.any" => ret = Return(none)

C29_Witness ==
    /\ call.op = "any"
    /\ call.args = <<>>
    /\ ret = Return(Err(Array(<<>>)))

(***************************************************************************)
(* Properties of the containers as objects (SpecObjects, SpecAll).         *)
(***************************************************************************)
IsNone(v) == IsOption(v) /\ v.isNone

\* C22: every None a call of the API hands back, directly or as what the
\* promise of Option.safe resolves to, is Option.none itself, the one object
\* at address 0; no None is ever built and kept at another address.
C22_AbsentSingleton ==
    /\ ret.c = "return" =>
            /\ IsNone(ret.v) => ret.v = none
            /\ (IsPromise(ret.v) /\ ret.v.settles.c = "return" /\ IsNone(ret.v.settles.v)) =>
                    ret.v.settles.v = none
    /\ \A i \in DOMAIN heap : ~IsNone(heap[i])

C22_Witness ==
    /\ call.op = "toOption"
    /\ self.type = "Err"
    /\ self.ref = 1
    /\ ret = Return(none)

\* The fields of a container, without its address.
Fields(obj) == [f \in DOMAIN obj \ {"ref"} |-> obj[f]]

\* C23: no step changes the variant or the payload of a container kept at an
\* address, or the Result an Async instance has resolved to, or removes an
\* Async instance; and a method that returns a container whose variant or
\* payload differs from the receiver's returns another object than the
\* receiver.
C23_Immutable ==
    [][/\ \A i \in DOMAIN heap : heap'[i] = heap[i]
       /\ \A i \in DOMAIN asyncs :
            /\ i \in DOMAIN asyncs'
            /\ asyncs'[i].parent = asyncs[i].parent
            /\ asyncs[i].result # Pending => asyncs'[i].result = asyncs[i].result
       /\ (/\ self' # Null
           /\ ret'.c = "return"
           /\ IsContainer(ret'.v)
           /\ Fields(ret'.v) # Fields(self')) =>
                (IsKept(ret'.v) => ret'.v.ref # self'.ref)]_vars

C23_Witness ==
    /\ call.op = "map"
    /\ self.type = "Ok"
    /\ self.ref = 1
    /\ ret.c = "return"
    /\ ret.v.value # self.value
    /\ ret.v # self
    /\ heap[1] = self

\* The four methods that throw by design.
OrThrowOps == {"okOrThrow", "errorOrThrow", "someOrThrow", "noneOrThrow"}

\* C24: a call other than okOrThrow, errorOrThrow, someOrThrow, noneOrThrow
\* throws only what a function it was handed threw: it throws nothing when
\* every function it called returned, whatever the receiver, an Err too.
C24_OnlyOrThrowRaises ==
    (call.op \notin OrThrowOps \cup {"-"} /\ ret.c = "throw") =>
        \E n \in 1..Len(invoked) : Apply(invoked[n].fn, invoked[n].arg) = ret

C24_Witness ==
    /\ call.op = "okOr"
    /\ self.type = "Err"
    /\ ret = Return(Fallback)

====
